---- MODULE Spec2Model ----
(***************************************************************************)
(* The tutoring backend: analyzeStudentResponse and processLearningResponse *)
(* (backend/routes/learningRoutes.js) and uploadImage and analyzeImage      *)
(* (the image controller, unnamed/part_000).                                *)
(*                                                                          *)
(* A JavaScript string is a sequence of tokens (a token is a character or   *)
(* an indivisible word); a JavaScript object is a function whose domain is  *)
(* the set of keys that are present.                                        *)
(***************************************************************************)
EXTENDS Integers, Sequences, FiniteSets, TLC

VARIABLES
  ep,      \* ep[r]: the endpoint request r was sent to ("none" before it arrives)
  pc,      \* pc[r]: where the handler of r stands (the await it is suspended at)
  body,    \* body[r]: req.body (req.file and the upload's attributes for uploadImage)
  loc,     \* loc[r]: the handler's local variables that outlive an await
  calls,   \* calls[r]: the provider calls r has issued, in order
  resp,    \* resp[r]: the responses sent for r, in order
  files,   \* the upload directories: path -> stored content
  now,     \* Date.now()
  conv,    \* the tutoring client's side: the context it sends with its next turn
  hist     \* the turns the tutoring client has completed, in order

vars == <<ep, pc, body, loc, calls, resp, files, now, conv, hist>>

---------------------------------------------------------------------------
(* Bounds of the model.                                                     *)

NumReq == 2       \* requests in flight in the concurrent specification
MaxSegs == 3      \* segments of a classifier reply text
MaxLines == 6     \* lines of a step-generation reply text
MaxTurns == 3     \* turns of one tutoring conversation
MaxClock == 1     \* the clock runs over 0..MaxClock
MaxRand == 1      \* Math.round(Math.random() * 1E9) runs over 0..MaxRand
MaxStep == 2      \* current_step and total_steps run over 0..MaxStep

Reqs == 1..NumReq
Serial == {1}     \* the one request of the specifications of a single request

---------------------------------------------------------------------------
(* JavaScript values.                                                       *)

NoObj == <<>>                       \* {} : no key present
Opt(S) == {[has |-> FALSE, v |-> <<>>]} \cup {[has |-> TRUE, v |-> s] : s \in S}
Field(k, o) == IF o.has THEN (k :> o.v) ELSE NoObj
Has(o, k) == k \in DOMAIN o

\* Falsy, had it tested for the empty string only.
FalsyEmptyOnly(o, k) == Has(o, k) /\ o[k] = <<>>

\* !x for a string-valued field: undefined and "" are falsy.
Falsy(o, k) == ~Has(o, k) \/ o[k] = <<>>

\* String.prototype.toLowerCase, token by token.
LowerTok(t) ==
  CASE t = "CORRECT:" -> "correct:"
    [] t = "Confusion:" -> "confusion:"
    [] t = "True" -> "true"
    [] t = "FALSE" -> "false"
    [] t = "Math Problem" -> "math problem"
    [] t = "Equation" -> "equation"
    [] OTHER -> t

IsWs(t) == t \in {" ", "\n"}                     \* \s
IsDigit(t) == t \in {"0", "1", "2", "7", "9"}    \* \d
DigitVal(t) ==
  CASE t = "0" -> 0 [] t = "1" -> 1 [] t = "2" -> 2 [] t = "7" -> 7 [] t = "9" -> 9

\* The end of the longest run of whitespace, of digits, of tokens other than a
\* newline, that starts at i (i - 1 when s[i] is not of the kind).
RECURSIVE WsEnd(_, _)
WsEnd(s, i) == IF i <= Len(s) /\ IsWs(s[i]) THEN WsEnd(s, i + 1) ELSE i - 1

RECURSIVE DigitEnd(_, _)
DigitEnd(s, i) == IF i <= Len(s) /\ IsDigit(s[i]) THEN DigitEnd(s, i + 1) ELSE i - 1

RECURSIVE LineEnd(_, _)
LineEnd(s, i) == IF i <= Len(s) /\ s[i] # "\n" THEN LineEnd(s, i + 1) ELSE i - 1

\* parseInt of a string of digits.
RECURSIVE ParseInt(_)
ParseInt(d) ==
  IF d = <<>> THEN 0
  ELSE 10 * ParseInt(SubSeq(d, 1, Len(d) - 1)) + DigitVal(d[Len(d)])

Min(S) == CHOOSE x \in S : \A y \in S : x <= y
Max(S) == CHOOSE x \in S : \A y \in S : x >= y

RECURSIVE Flatten(_)
Flatten(ss) == IF ss = <<>> THEN <<>> ELSE Head(ss) \o Flatten(Tail(ss))

\* Array.prototype.join("\n").
RECURSIVE JoinLines(_)
JoinLines(ls) ==
  IF ls = <<>> THEN <<>>
  ELSE IF Len(ls) = 1 THEN ls[1]
  ELSE ls[1] \o <<"\n">> \o JoinLines(Tail(ls))

SeqsUpTo(S, n) == UNION {[1..k -> S] : k \in 0..n}

---------------------------------------------------------------------------
(* Responses and provider calls.                                            *)

Resp400(msg) == [status |-> 400, json |-> [success |-> FALSE, message |-> msg]]

\* Resp500, had it kept error.message to itself.
Resp500Silent(msg, err) ==
  [status |-> 500, json |-> [success |-> FALSE, message |-> msg]]

\* The catch block of a handler: status 500 with error.message.
Resp500(msg, err) ==
  [status |-> 500, json |-> [success |-> FALSE, message |-> msg, error |-> err]]

\* res.status(200).json({success: true, ...rest}): a key of rest wins over success.
Resp200(rest) == [status |-> 200, json |-> rest @@ [success |-> TRUE]]

Call(api, model, input) ==
  [api |-> api, model |-> model, input |-> input, out |-> "pending", err |-> ""]

\* The last call of r has returned, or has thrown.
Settle(r, reply) ==
  [calls EXCEPT ![r][Len(calls[r])].out = IF reply.kind = "throw" THEN "threw" ELSE "returned",
                ![r][Len(calls[r])].err = reply.err]

\* `${x}` for a field of the body: undefined prints as "undefined".
Interp(o, k) == IF Has(o, k) THEN o[k] ELSE <<"undefined">>

ProviderErrors == {"Request failed with status code 429"}
TypeErrorText == "Cannot read properties of undefined"
SyntaxErrorText == "Unexpected token in JSON"

\* What a chat completion call comes back with: it throws (err), or it returns
\* data whose choices are empty, or whose first choice carries a function_call
\* (args), or content (text), or content null.
ChatReply(kind, err, args, text) == [kind |-> kind, err |-> err, args |-> args, text |-> text]
NoArgs == [wf |-> FALSE, members |-> <<>>]
ChatThrows == {ChatReply("throw", e, NoArgs, <<>>) : e \in ProviderErrors}
ChatNoChoices == {ChatReply("nochoices", "", NoArgs, <<>>)}
ChatNullContent == {ChatReply("null", "", NoArgs, <<>>)}
ChatContent(texts) == {ChatReply("content", "", NoArgs, t) : t \in texts}
ChatFunctionCall(argss) == {ChatReply("fcall", "", a, <<>>) : a \in argss}

---------------------------------------------------------------------------
(* analyzeStudentResponse.                                                  *)

\* JSON.parse of an object text, given as its members in order: a later
\* member of the same name wins; a malformed text throws.
RECURSIVE ObjectOf(_)
ObjectOf(members) ==
  IF members = <<>> THEN NoObj
  ELSE LET m == members[Len(members)]
       IN  (m[1] :> m[2]) @@ ObjectOf(SubSeq(members, 1, Len(members) - 1))

\* The positions where /correct:\s*(true|false)/i matches, and the capture.
CorrectCapture(s, i) == WsEnd(s, i + 1) + 1
CorrectMatchAt(s, i) ==
  /\ LowerTok(s[i]) = "correct:"
  /\ CorrectCapture(s, i) <= Len(s)
  /\ LowerTok(s[CorrectCapture(s, i)]) \in {"true", "false"}
CorrectMatches(s) == {i \in 1..Len(s) : CorrectMatchAt(s, i)}

\* The positions where /confusion:\s*(\d+)/i matches, and the capture.
ConfusionCapture(s, i) ==
  LET d == WsEnd(s, i + 1) + 1 IN SubSeq(s, d, DigitEnd(s, d))
ConfusionMatchAt(s, i) ==
  /\ LowerTok(s[i]) = "confusion:"
  /\ ConfusionCapture(s, i) # <<>>
ConfusionMatches(s) == {i \in 1..Len(s) : ConfusionMatchAt(s, i)}

\* FallbackIsCorrect, had it compared the capture without lowering it.
FallbackIsCorrectCaseSensitive(s) ==
  IF CorrectMatches(s) # {}
  THEN s[CorrectCapture(s, Min(CorrectMatches(s)))] = "true"
  ELSE FALSE

\* The else branch: String.prototype.match returns the leftmost match.
FallbackIsCorrect(s) ==
  IF CorrectMatches(s) # {}
  THEN LowerTok(s[CorrectCapture(s, Min(CorrectMatches(s)))]) = "true"
  ELSE FALSE

FallbackConfusion(s) ==
  IF ConfusionMatches(s) # {}
  THEN ParseInt(ConfusionCapture(s, Min(ConfusionMatches(s))))
  ELSE 5

FallbackResult(s) ==
  [is_correct |-> FallbackIsCorrect(s),
   confusion_level |-> FallbackConfusion(s),
   feedback |-> s]

\* StructuredResult, had it defaulted misconceptions to the empty list.
StructuredResultDefaulted(args) ==
  ObjectOf(args.members) @@ [misconceptions |-> <<>>]

\* The then branch: the parsed arguments, as they are.
StructuredResult(args) == ObjectOf(args.members)

\* Lines 114-133: analysisResult, or the exception that reaches the catch block.
Ok(v) == [ok |-> TRUE, val |-> v, why |-> "none", err |-> ""]
Throw(why, e) == [ok |-> FALSE, val |-> NoObj, why |-> why, err |-> e]

AnalysisResult(reply) ==
  CASE reply.kind = "throw" -> Throw("call", reply.err)
    [] reply.kind = "nochoices" -> Throw("parse", TypeErrorText)
    [] reply.kind = "fcall" ->
         IF reply.args.wf THEN Ok(StructuredResult(reply.args))
         ELSE Throw("parse", SyntaxErrorText)
    [] reply.kind = "null" -> Throw("parse", TypeErrorText)
    [] reply.kind = "content" -> Ok(FallbackResult(reply.text))

\* Lines 25-112: validation, then the chat completion call is issued.
AnalyzeReceive(r, b) ==
  /\ pc[r] = "idle"
  /\ ep' = [ep EXCEPT ![r] = "analyze"]
  /\ body' = [body EXCEPT ![r] = b]
  /\ IF Falsy(b, "studentResponse") \/ Falsy(b, "context")
     THEN /\ resp' = [resp EXCEPT ![r] =
                        Append(@, Resp400("Student response and context are required"))]
          /\ pc' = [pc EXCEPT ![r] = "done"]
          /\ calls' = calls
     ELSE /\ calls' = [calls EXCEPT ![r] =
                         Append(@, Call("chat", "gpt-4",
                                        [system |-> <<"analysis">> \o Interp(b, "context"),
                                         user |-> Interp(b, "studentResponse")]))]
          /\ pc' = [pc EXCEPT ![r] = "awaitChat"]
          /\ resp' = resp
  /\ UNCHANGED <<loc, files, now, conv, hist>>

\* Lines 112-147: the call comes back; the reply is parsed and answered.
AnalyzeChatReturns(r, replies) ==
  /\ pc[r] = "awaitChat"
  /\ ep[r] = "analyze"
  /\ \E reply \in replies :
       /\ LET a == AnalysisResult(reply)
          IN  /\ calls' = Settle(r, reply)
              /\ loc' = [loc EXCEPT ![r] = [caught |-> a.why, error |-> a.err, response |-> reply]]
              /\ resp' = [resp EXCEPT ![r] =
                            Append(@, IF a.ok THEN Resp200(a.val)
                                      ELSE Resp500("Error analyzing student response", a.err))]
       /\ pc' = [pc EXCEPT ![r] = "done"]
       /\ UNCHANGED <<ep, body, files, now, conv, hist>>

---------------------------------------------------------------------------
(* processLearningResponse.                                                 *)

JsNull == <<"<null>">>                       \* null where a string is expected
Str(v) == IF v = JsNull THEN <<"null">> ELSE v   \* `${v}`

\* response_type, had the destructuring no default value.
ResponseTypeNoDefault(b) ==
  IF Has(b, "response_type") THEN b["response_type"] ELSE "<undefined>"

\* Line 162: response_type = 'hint' applies when the key is undefined only.
ResponseType(b) ==
  IF Has(b, "response_type") THEN b["response_type"] ELSE "hint"

\* IsFinalStep, had it compared with > .
IsFinalStepStrict(b) == b["current_step"] > b["total_steps"]

\* Line 173.
IsFinalStep(b) == b["current_step"] >= b["total_steps"]

\* Lines 178-257: the switch; each template with its interpolations.
TemplateHead(b, opening, stepline) ==
  <<opening>> \o Interp(b, "subject") \o <<" problem. The student is on step ",
    ToString(b["current_step"]), " of ", ToString(b["total_steps"]), stepline,
    " Current context: \"">> \o Interp(b, "context") \o <<"\"">>

HintTemplate(b) ==
  TemplateHead(b, "You are an AI tutor helping a student with a ", ".")
    \o <<"The student has responded and needs a HINT to move forward.">>
ClarificationTemplate(b) ==
  TemplateHead(b, "You are an AI tutor helping a confused student with a ",
               " and seems confused.")
    \o <<"Reassure, clarify, break down the step.">>
EncouragementTemplate(b) ==
  TemplateHead(b, "You are an AI tutor celebrating a student's progress with a ",
               " and has provided a good answer.")
    \o <<"Praise, reinforce, connect, present the next challenge.">>
DefaultTemplate(b) ==
  TemplateHead(b, "You are an AI tutor helping a student with a ", ".")
    \o <<"Provide guidance that helps them learn, but never give direct answers.">>

SelectTemplate(b) ==
  CASE ResponseType(b) = "hint" -> HintTemplate(b)
    [] ResponseType(b) = "clarification" -> ClarificationTemplate(b)
    [] ResponseType(b) = "encouragement" -> EncouragementTemplate(b)
    [] OTHER -> DefaultTemplate(b)

\* Lines 259-270.
FinalStepAddendum == <<"This is the FINAL STEP in the learning process.">>
SystemPrompt(b) ==
  SelectTemplate(b) \o (IF IsFinalStep(b) THEN FinalStepAddendum ELSE <<>>)

\* Line 282.
UserContent(b) ==
  <<"Original question: \"">> \o Interp(b, "user_query")
    \o <<"\"\n\nStudent's message: \"">> \o Interp(b, "message") \o <<"\"">>

\* UpdatedContext, had it kept the last interaction only.
UpdatedContextLastTurn(b, responseText) ==
  <<"\n\nStudent: ">> \o Interp(b, "message") \o <<"\n\nTutor: ">> \o Str(responseText)

\* Line 292.
UpdatedContext(b, responseText) ==
  Interp(b, "context") \o <<"\n\nStudent: ">> \o Interp(b, "message")
    \o <<"\n\nTutor: ">> \o Str(responseText)

\* Line 289: responseText, or the exception that reaches the catch block.
ResponseText(reply) ==
  CASE reply.kind = "throw" -> Throw("call", reply.err)
    [] reply.kind = "nochoices" -> Throw("parse", TypeErrorText)
    [] reply.kind = "null" -> Ok(JsNull)
    [] OTHER -> Ok(reply.text)

\* Lines 153-287: validation, the prompt, then the chat completion call.
ProcessReceive(r, b) ==
  /\ pc[r] = "idle"
  /\ ep' = [ep EXCEPT ![r] = "process"]
  /\ body' = [body EXCEPT ![r] = b]
  /\ IF Falsy(b, "message") \/ Falsy(b, "subject")
     THEN /\ resp' = [resp EXCEPT ![r] =
                        Append(@, Resp400("Student message and subject are required"))]
          /\ pc' = [pc EXCEPT ![r] = "done"]
          /\ UNCHANGED <<calls, loc>>
     ELSE /\ calls' = [calls EXCEPT ![r] =
                         Append(@, Call("chat", "gpt-4",
                                        [system |-> SystemPrompt(b), user |-> UserContent(b)]))]
          /\ loc' = [loc EXCEPT ![r] = [isFinalStep |-> IsFinalStep(b)]]
          /\ pc' = [pc EXCEPT ![r] = "awaitChat"]
          /\ resp' = resp
  /\ UNCHANGED <<files, now, conv, hist>>

\* Lines 287-308: the call comes back; the context is extended and returned.
ProcessChatReturns(r, replies) ==
  /\ pc[r] = "awaitChat"
  /\ ep[r] = "process"
  /\ \E reply \in replies :
       /\ LET t == ResponseText(reply)
          IN  /\ calls' = Settle(r, reply)
              /\ loc' = [loc EXCEPT ![r] =
                           [isFinalStep |-> loc[r].isFinalStep, caught |-> t.why,
                            error |-> t.err, response |-> reply]]
              /\ resp' = [resp EXCEPT ![r] =
                            Append(@, IF t.ok
                                      THEN Resp200([next_step |-> t.val,
                                                    is_final_step |-> loc[r].isFinalStep,
                                                    context |-> UpdatedContext(body[r], t.val)])
                                      ELSE Resp500("Error processing learning response", t.err))]
       /\ pc' = [pc EXCEPT ![r] = "done"]
       /\ UNCHANGED <<ep, body, files, now, conv, hist>>

\* The tutoring client: it keeps the context of a successful turn for its next
\* turn, and sends the same context again after a failed one.
ClientNextTurn(r) ==
  /\ ep[r] = "process"
  /\ pc[r] = "done"
  /\ Len(hist) < MaxTurns
  /\ LET a == resp[r][Len(resp[r])]
     IN  IF a.status = 200
         THEN /\ conv' = [context |-> a.json["context"]]
              /\ hist' = Append(hist, [sent |-> body[r],
                                       reply |-> loc[r].response,
                                       returned |-> a.json["context"]])
         ELSE UNCHANGED <<conv, hist>>
  /\ ep' = [ep EXCEPT ![r] = "none"]
  /\ pc' = [pc EXCEPT ![r] = "idle"]
  /\ body' = [body EXCEPT ![r] = NoObj]
  /\ loc' = [loc EXCEPT ![r] = NoObj]
  /\ calls' = [calls EXCEPT ![r] = <<>>]
  /\ resp' = [resp EXCEPT ![r] = <<>>]
  /\ UNCHANGED <<files, now>>

---------------------------------------------------------------------------
(* The image controller: uploadImage and analyzeImage.                      *)

MaxFallbackSteps == 5

Store(path, content) == (path :> content) @@ files
Remove(path) == [q \in DOMAIN files \ {path} |-> files[q]]

\* Lines 22-25: Date.now() + '-' + Math.round(Math.random() * 1E9) + extname.
UploadPath(t, rnd, ext) == <<"/uploads/images/", ToString(t), "-", ToString(rnd), ext>>

\* Lines 198-206: `response-${Date.now()}.mp3`; the request has no part in it.
AudioPath(t, r) == <<"/uploads/audio/", "response-", ToString(t), ".mp3">>

\* Lines 29-35.
FileFilter(f) == f.mimetype \in {"image/png", "image/jpeg"}

\* Lines 52-69, with multer: no file, or a file the filter rejects, is
\* answered 400; an accepted file is named and its writing begins.
UploadReceive(r, f, rnd) ==
  /\ pc[r] = "idle"
  /\ ep' = [ep EXCEPT ![r] = "upload"]
  /\ body' = [body EXCEPT ![r] = f]
  /\ IF ~f.present
     THEN /\ resp' = [resp EXCEPT ![r] = Append(@, Resp400("Please upload an image file"))]
          /\ pc' = [pc EXCEPT ![r] = "done"]
          /\ UNCHANGED <<loc, files>>
     ELSE IF ~FileFilter(f)
     THEN /\ resp' = [resp EXCEPT ![r] = Append(@, Resp400("Only image files are allowed!"))]
          /\ pc' = [pc EXCEPT ![r] = "done"]
          /\ UNCHANGED <<loc, files>>
     ELSE /\ loc' = [loc EXCEPT ![r] = [path |-> UploadPath(now, rnd, f.ext)]]
          /\ files' = Store(UploadPath(now, rnd, f.ext), [by |-> r, data |-> f.data])
          /\ pc' = [pc EXCEPT ![r] = "storing"]
          /\ resp' = resp
  /\ UNCHANGED <<calls, now, conv, hist>>

\* Lines 38-44 and 55-81: a file over the size limit is removed again and
\* answered 400; otherwise the URL of the stored file is returned.
UploadStored(r) ==
  /\ pc[r] = "storing"
  /\ ep[r] = "upload"
  /\ IF body[r].oversize
     THEN /\ files' = Remove(loc[r].path)
          /\ resp' = [resp EXCEPT ![r] = Append(@, Resp400("File too large"))]
     ELSE /\ files' = files
          /\ resp' = [resp EXCEPT ![r] =
                        Append(@, Resp200([image_url |-> loc[r].path,
                                           message |-> "Image uploaded successfully"]))]
  /\ pc' = [pc EXCEPT ![r] = "done"]
  /\ UNCHANGED <<ep, body, loc, calls, now, conv, hist>>

\* Lines 141-155: the patterns, on a lowered word. /read(ing)?/ matches inside
\* "bread"; /writ(ing|e)/ does not match "writ".
Educational(word) ==
  word \in {"math problem", "equation", "science question", "experiment", "read",
            "reading", "bread", "write", "writing", "homework", "problem to solve",
            "steps to follow"}
ShouldEnterTutorialMode(analysis) ==
  \E i \in 1..Len(Str(analysis)) : Educational(LowerTok(Str(analysis)[i]))

\* The end of the match of /\d+\.\s+[^\n]+/ that starts at i, or 0: digits, a
\* dot, whitespace that gives back what the rest of the line needs, and the
\* rest of the line.
StepMatchEnd(s, i) ==
  LET d == DigitEnd(s, i)
      w == WsEnd(s, d + 2)
      ks == {k \in (d + 2)..w : k + 1 <= Len(s) /\ s[k + 1] # "\n"}
  IN  IF d >= i /\ d + 1 <= Len(s) /\ s[d + 1] = "." /\ ks # {}
      THEN LineEnd(s, Max(ks) + 1)
      ELSE 0

\* String.prototype.match with the g flag: every match, left to right.
RECURSIVE StepMatches(_, _)
StepMatches(s, i) ==
  IF i > Len(s) THEN <<>>
  ELSE IF StepMatchEnd(s, i) > 0
       THEN <<SubSeq(s, i, StepMatchEnd(s, i))>> \o StepMatches(s, StepMatchEnd(s, i) + 1)
       ELSE StepMatches(s, i + 1)

\* String.prototype.trim.
RECURSIVE Trim(_)
Trim(s) ==
  IF s = <<>> THEN s
  ELSE IF IsWs(s[1]) THEN Trim(Tail(s))
  ELSE IF IsWs(s[Len(s)]) THEN Trim(SubSeq(s, 1, Len(s) - 1))
  ELSE s

\* String.prototype.split('\n').
RECURSIVE SplitLines(_)
SplitLines(s) ==
  LET e == LineEnd(s, 1)
  IN  IF e = Len(s) THEN <<s>>
      ELSE <<SubSeq(s, 1, e)>> \o SplitLines(SubSeq(s, e + 2, Len(s)))

\* Array.prototype.filter(line => line.trim().length > 0).
RECURSIVE NonBlank(_)
NonBlank(ls) ==
  IF ls = <<>> THEN <<>>
  ELSE (IF Len(Trim(Head(ls))) > 0 THEN <<Head(ls)>> ELSE <<>>) \o NonBlank(Tail(ls))

\* Array.prototype.slice(0, n).
Slice0(ls, n) == SubSeq(ls, 1, IF Len(ls) < n THEN Len(ls) ELSE n)

\* Lines 178-187.
LearningSteps(stepsText) ==
  LET m == StepMatches(stepsText, 1)
  IN  IF m # <<>> THEN [i \in 1..Len(m) |-> Trim(m[i])]
      ELSE Slice0(NonBlank(SplitLines(stepsText)), MaxFallbackSteps)

ImageError(r, key, reply, why, err) ==
  /\ loc' = [loc EXCEPT ![r] = (key :> reply) @@ [caught |-> why, error |-> err] @@ @]
  /\ resp' = [resp EXCEPT ![r] = Append(@, Resp500("Error analyzing image", err))]
  /\ pc' = [pc EXCEPT ![r] = "done"]

\* CallAudio, had the request that asked for steps gone on without it.
CallAudioDirectOnly(r, cs, analysis) ==
  /\ calls' = IF pc[r] = "awaitSteps" THEN cs
              ELSE [cs EXCEPT ![r] = Append(@, Call("audio", "tts-1", analysis))]
  /\ pc' = [pc EXCEPT ![r] = "awaitAudio"]
  /\ resp' = resp

\* Lines 190-195: createAudio is called with the analysis.
CallAudio(r, cs, analysis) ==
  /\ calls' = [cs EXCEPT ![r] = Append(@, Call("audio", "tts-1", analysis))]
  /\ pc' = [pc EXCEPT ![r] = "awaitAudio"]
  /\ resp' = resp

\* Lines 85-136: validation, then the vision call.
ImageReceive(r, b) ==
  /\ pc[r] = "idle"
  /\ ep' = [ep EXCEPT ![r] = "image"]
  /\ body' = [body EXCEPT ![r] = b]
  /\ IF Falsy(b, "image_url")
     THEN /\ resp' = [resp EXCEPT ![r] = Append(@, Resp400("Image URL is required"))]
          /\ pc' = [pc EXCEPT ![r] = "done"]
          /\ calls' = calls
     ELSE /\ calls' = [calls EXCEPT ![r] =
                         Append(@, Call("chat", "gpt-4-vision-preview", Interp(b, "image_url")))]
          /\ pc' = [pc EXCEPT ![r] = "awaitVision"]
          /\ resp' = resp
  /\ UNCHANGED <<loc, files, now, conv, hist>>

\* Lines 136-174 and 190-195: the analysis comes back; tutorial mode is
\* detected; the steps are asked for, or else the audio.
VisionReturns(r, replies) ==
  /\ pc[r] = "awaitVision"
  /\ \E reply \in replies :
       /\ LET t == ResponseText(reply)
              tutorial == ShouldEnterTutorialMode(t.val)
          IN  IF ~t.ok
              THEN /\ ImageError(r, "response", reply, t.why, t.err)
                   /\ calls' = Settle(r, reply)
              ELSE /\ loc' = [loc EXCEPT ![r] =
                                [response |-> reply,
                                 analysis |-> t.val, shouldEnterTutorialMode |-> tutorial,
                                 learningSteps |-> <<>>, caught |-> "none", error |-> ""]]
                   /\ IF tutorial
                      THEN /\ calls' = [Settle(r, reply) EXCEPT ![r] =
                                          Append(@, Call("chat", "gpt-4", Str(t.val)))]
                           /\ pc' = [pc EXCEPT ![r] = "awaitSteps"]
                           /\ resp' = resp
                      ELSE CallAudio(r, Settle(r, reply), t.val)
       /\ UNCHANGED <<ep, body, files, now, conv, hist>>

\* Lines 174-195: the steps come back and are parsed; the audio is asked for.
\* stepsText.match throws on a null content.
StepsReturn(r, replies) ==
  /\ pc[r] = "awaitSteps"
  /\ \E reply \in replies :
       /\ LET t == ResponseText(reply)
          IN  IF ~t.ok \/ t.val = JsNull
              THEN /\ ImageError(r, "stepsResponse", reply, IF t.ok THEN "parse" ELSE t.why,
                                 IF t.ok THEN TypeErrorText ELSE t.err)
                   /\ calls' = Settle(r, reply)
              ELSE /\ loc' = [loc EXCEPT ![r] = [stepsResponse |-> reply] @@
                                [@ EXCEPT !.learningSteps = LearningSteps(t.val)]]
                   /\ CallAudio(r, Settle(r, reply), loc[r].analysis)
       /\ UNCHANGED <<ep, body, files, now, conv, hist>>

\* Lines 195-228: the audio comes back, is written under the name made from
\* the clock, and the response is sent; writeFileSync may throw.
AudioReturns(r, replies, diskErrors) ==
  /\ pc[r] = "awaitAudio"
  /\ \E reply \in replies, diskError \in diskErrors :
       /\ calls' = Settle(r, reply)
       /\ IF reply.kind = "throw"
          THEN ImageError(r, "audioResponse", reply, "call", reply.err) /\ files' = files
          ELSE IF diskError # ""
          THEN ImageError(r, "audioResponse", reply, "write", diskError) /\ files' = files
          ELSE /\ files' = Store(AudioPath(now, r), [by |-> r, data |-> loc[r].analysis])
               /\ loc' = [loc EXCEPT ![r] = [audioResponse |-> reply] @@ @]
               /\ resp' = [resp EXCEPT ![r] =
                             Append(@, Resp200([response |-> loc[r].analysis,
                                                audio_url |-> AudioPath(now, r),
                                                should_enter_tutorial_mode |->
                                                  loc[r].shouldEnterTutorialMode,
                                                learning_context |-> loc[r].analysis,
                                                learning_steps |-> loc[r].learningSteps]))]
               /\ pc' = [pc EXCEPT ![r] = "done"]
       /\ UNCHANGED <<ep, body, now, conv, hist>>

\* Time passes.
Tick ==
  /\ now < MaxClock
  /\ now' = now + 1
  /\ UNCHANGED <<ep, pc, body, loc, calls, resp, files, conv, hist>>

---------------------------------------------------------------------------
(* The requests and the provider replies the specifications draw from.      *)

SomeText == <<"x">>
OptText == Opt({<<>>, SomeText})

AnalyzeBodies ==
  {Field("studentResponse", a) @@ Field("context", c) : a \in OptText, c \in OptText}

ClassifierSegs ==
  { <<"correct:", " ", "true">>, <<"CORRECT:", "True">>, <<"correct:", " ", "false">>,
    <<"correct:", "x">>, <<"confusion:", " ", "7">>, <<"Confusion:", "1", "2">>,
    <<"confusion:", "x">>, <<"x">>, <<"\n">> }
ClassifierTexts == {Flatten(ss) : ss \in SeqsUpTo(ClassifierSegs, MaxSegs)}

ConfusionVals == {-1, 0, 3, 10, 11}
Misconceptions == {<<>>, <<<<"sign", " ", "error">>>>}
StructuredArgs ==
  { [wf |-> TRUE,
     members |-> << <<"is_correct", c>>, <<"confusion_level", l>>, <<"feedback", f>> >>
                 \o (IF m.has THEN << <<"misconceptions", m.v>> >> ELSE <<>>)] :
      c \in BOOLEAN, l \in ConfusionVals, f \in {<<>>, <<"ok">>}, m \in Opt(Misconceptions) }
  \cup {NoArgs}

AnalyzeReplies ==
  ChatThrows \cup ChatNoChoices \cup ChatNullContent
    \cup ChatFunctionCall(StructuredArgs) \cup ChatContent(ClassifierTexts)

ResponseTypes ==
  Opt({"hint", "clarification", "encouragement", "default", "quiz", "Hint", "", "<null>"})
StepVals == 0..MaxStep
TutorTexts == {<<"t1">>, <<"t2">>}
TutorReplies == ChatThrows \cup ChatNoChoices \cup ChatNullContent \cup ChatContent(TutorTexts)

ProcessBodies(messages, subjects, types, steps, contexts) ==
  { Field("message", m) @@ Field("subject", s) @@ Field("response_type", t)
      @@ [current_step |-> cs, total_steps |-> ts] @@ c :
      m \in messages, s \in subjects, t \in types, cs \in steps, ts \in steps,
      c \in contexts }

\* Any one request to processLearningResponse.
AnyContext == {Field("context", c) : c \in OptText}
AnyProcessBodies == ProcessBodies(OptText, OptText, ResponseTypes, StepVals, AnyContext)

\* A turn of a conversation: the client sends the context it holds.
Said == Opt({<<"m1">>, <<"m2">>})
TurnBodies ==
  { Field("message", m) @@ [subject |-> <<"math">>] @@ c
      @@ [current_step |-> Len(hist) + 1, total_steps |-> MaxTurns] :
      m \in Said, c \in IF hist = <<>> THEN AnyContext ELSE {conv} }

ImageBodies == {Field("image_url", u) : u \in Opt({<<>>, <<"http://host/uploads/images/1.png">>})}

Uploads ==
  { [present |-> p, mimetype |-> m, oversize |-> o, ext |-> ".png", data |-> d] :
      p \in BOOLEAN, m \in {"image/png", "text/plain"}, o \in BOOLEAN,
      d \in {"drawing", "worksheet"} }

\* What the vision call may say of an image.
Sightings ==
  { <<"cat">>, <<"a", "Math Problem">>, <<"bread">>, <<"writ">>, <<"writing">>,
    <<"Equation", "homework">> }
VisionReplies ==
  ChatThrows \cup ChatNoChoices \cup ChatNullContent \cup ChatContent(Sightings)
FewVisionReplies ==
  ChatThrows \cup ChatNoChoices \cup ChatNullContent
    \cup ChatContent({<<"cat">>, <<"a", "Math Problem">>})

\* The step-generation replies: up to MaxLines lines, each a numbered step, a
\* plain line, an empty line or a line of whitespace.
LineKinds == { <<"1", ".", " ", "a">>, <<"a", " ">>, <<>>, <<" ">> }
StepsTexts == {JoinLines(ls) : ls \in SeqsUpTo(LineKinds, MaxLines)}
StepsReplies ==
  ChatThrows \cup ChatNoChoices \cup ChatNullContent \cup ChatContent(StepsTexts)
BriefStepsReplies ==
  ChatThrows \cup ChatNoChoices \cup ChatNullContent
    \cup ChatContent({<<"1", ".", " ", "a">>, <<"a", " ">>})

AudioReplies == ChatThrows \cup {ChatReply("audio", "", NoArgs, <<>>)}
DiskErrors == {"", "ENOSPC: no space left on device"}

---------------------------------------------------------------------------
(* Specifications.                                                          *)

Init ==
  /\ ep = [r \in Reqs |-> "none"]
  /\ pc = [r \in Reqs |-> "idle"]
  /\ body = [r \in Reqs |-> NoObj]
  /\ loc = [r \in Reqs |-> NoObj]
  /\ calls = [r \in Reqs |-> <<>>]
  /\ resp = [r \in Reqs |-> <<>>]
  /\ files = NoObj
  /\ now = 0
  /\ conv = NoObj
  /\ hist = <<>>

\* One request to analyzeStudentResponse.
NextAnalyze ==
  \E r \in Serial :
    \/ \E b \in AnalyzeBodies : AnalyzeReceive(r, b)
    \/ AnalyzeChatReturns(r, AnalyzeReplies)

SpecAnalyze == Init /\ [][NextAnalyze]_vars

\* One request to processLearningResponse.
NextProcess ==
  \E r \in Serial :
    \/ \E b \in AnyProcessBodies : ProcessReceive(r, b)
    \/ ProcessChatReturns(r, TutorReplies)

SpecProcess == Init /\ [][NextProcess]_vars

\* One request to analyzeImage, with every step-generation reply.
NextImage ==
  \E r \in Serial :
    \/ \E b \in ImageBodies : ImageReceive(r, b)
    \/ VisionReturns(r, FewVisionReplies)
    \/ StepsReturn(r, StepsReplies)
    \/ AudioReturns(r, AudioReplies, DiskErrors)

SpecImage == Init /\ [][NextImage]_vars

\* Requests to analyzeImage in flight together, as the clock runs.
NextAudio ==
  \/ \E r \in Reqs :
       \/ \E b \in ImageBodies : ImageReceive(r, b)
       \/ VisionReturns(r, VisionReplies)
       \/ StepsReturn(r, BriefStepsReplies)
       \/ AudioReturns(r, AudioReplies, DiskErrors)
  \/ Tick

SpecAudio == Init /\ [][NextAudio]_vars

\* Uploads and analyzeImage requests in flight together, as the clock runs.
NextStore ==
  \/ \E r \in Reqs :
       \/ \E f \in Uploads, rnd \in 0..MaxRand : UploadReceive(r, f, rnd)
       \/ UploadStored(r)
       \/ \E b \in ImageBodies : ImageReceive(r, b)
       \/ VisionReturns(r, VisionReplies)
       \/ StepsReturn(r, BriefStepsReplies)
       \/ AudioReturns(r, AudioReplies, DiskErrors)
  \/ Tick

SpecStore == Init /\ [][NextStore]_vars

\* A conversation: turns to processLearningResponse, one after the other.
NextConversation ==
  \E r \in Serial :
    \/ \E b \in TurnBodies : ProcessReceive(r, b)
    \/ ProcessChatReturns(r, TutorReplies)
    \/ ClientNextTurn(r)

SpecConversation == Init /\ [][NextConversation]_vars

\* One request, to any of analyzeStudentResponse, processLearningResponse
\* and analyzeImage.
Next ==
  \/ NextAnalyze
  \/ NextProcess
  \/ \E r \in Serial :
       \/ \E b \in ImageBodies : ImageReceive(r, b)
       \/ VisionReturns(r, VisionReplies)
       \/ StepsReturn(r, BriefStepsReplies)
       \/ AudioReturns(r, AudioReplies, DiskErrors)

Spec == Init /\ [][Next]_vars

---------------------------------------------------------------------------
(* Claims about analyzeStudentResponse.                                     *)

Done(r, e) == ep[r] = e /\ pc[r] = "done"
Answer(r) == resp[r][Len(resp[r])]
Succeeded(r, e) == Done(r, e) /\ Answer(r).status = 200

\* C5: in every success response of analyzeStudentResponse, on the structured
\* path and on the fallback path, confusion_level is an integer in 0..10.
C5_ConfusionLevelInRange ==
  \A r \in Reqs :
    Succeeded(r, "analyze") => Answer(r).json["confusion_level"] \in 0..10

\* The members of a JSON object text that no later member of the same name hides.
Visible(members) ==
  {i \in 1..Len(members) : \A j \in (i + 1)..Len(members) : members[j][1] # members[i][1]}
Names(members) == {members[i][1] : i \in 1..Len(members)}

Structured(r) == Succeeded(r, "analyze") /\ loc[r].response.kind = "fcall"
Payload(r) == loc[r].response.args.members

\* C6 as stated: on the structured path the response carries the payload's
\* is_correct, confusion_level and feedback unchanged, and misconceptions equal
\* to the payload's list, or to the empty sequence when the payload omits it.
C6_MisconceptionsDefaultEmpty ==
  \A r \in Reqs :
    Structured(r) =>
      /\ \A i \in Visible(Payload(r)) :
           /\ Has(Answer(r).json, Payload(r)[i][1])
           /\ Answer(r).json[Payload(r)[i][1]] = Payload(r)[i][2]
      /\ "misconceptions" \notin Names(Payload(r)) =>
           /\ Has(Answer(r).json, "misconceptions")
           /\ Answer(r).json["misconceptions"] = <<>>

\* C6 amended: on the structured path the response carries every member of
\* the payload unchanged (is_correct, confusion_level, feedback, and
\* misconceptions when given), and has no misconceptions key at all when the
\* payload omits it.
C6_StructuredPassThrough ==
  \A r \in Reqs :
    Structured(r) =>
      /\ \A i \in Visible(Payload(r)) :
           /\ Has(Answer(r).json, Payload(r)[i][1])
           /\ Answer(r).json[Payload(r)[i][1]] = Payload(r)[i][2]
      /\ DOMAIN Answer(r).json = Names(Payload(r)) \cup {"success"}
      /\ Answer(r).json["success"] = TRUE

C6_Witness ==
  \E r \in Reqs :
    /\ Structured(r)
    /\ "misconceptions" \notin Names(Payload(r))
    /\ Answer(r).json["is_correct"] = TRUE
    /\ Answer(r).json["confusion_level"] = 3
    /\ Answer(r).json["feedback"] = <<"ok">>

\* The first token after i that is not whitespace.
FirstNonWs(s, i) == CHOOSE j \in (i + 1)..Len(s) : \A k \in (i + 1)..j : IsWs(s[k]) <=> k < j
FollowedBy(s, i, values) ==
  \E j \in (i + 1)..Len(s) :
    /\ \A k \in (i + 1)..(j - 1) : IsWs(s[k])
    /\ LowerTok(s[j]) \in values

\* A marker: the word at i, then any whitespace, then one of its values.
CorrectMarkerAt(s, i) ==
  LowerTok(s[i]) = "correct:" /\ FollowedBy(s, i, {"true", "false"})
ConfusionMarkerAt(s, i) ==
  LowerTok(s[i]) = "confusion:" /\ FollowedBy(s, i, {t \in {s[k] : k \in 1..Len(s)} : IsDigit(t)})
FirstCorrectMarker(s) ==
  {i \in 1..Len(s) : CorrectMarkerAt(s, i) /\ \A h \in 1..(i - 1) : ~CorrectMarkerAt(s, h)}
FirstConfusionMarker(s) ==
  {i \in 1..Len(s) : ConfusionMarkerAt(s, i) /\ \A h \in 1..(i - 1) : ~ConfusionMarkerAt(s, h)}

\* The number a maximal run of digits starting at j denotes.
NumberAt(s, j) ==
  LET e == CHOOSE e \in j..Len(s) :
             /\ \A k \in j..e : IsDigit(s[k])
             /\ e = Len(s) \/ ~IsDigit(s[e + 1])
      Pow10[n \in Nat] == IF n = 0 THEN 1 ELSE 10 * Pow10[n - 1]
      Sum[k \in j - 1..e] == IF k < j THEN 0 ELSE Sum[k - 1] + DigitVal(s[k]) * Pow10[e - k]
  IN  Sum[e]

Fallback(r) == Succeeded(r, "analyze") /\ loc[r].response.kind = "content"
ReplyText(r) == loc[r].response.text

\* C7: on the fallback path, a marker being 'correct:' (resp. 'confusion:') in
\* any letter case, optional whitespace, and true or false (resp. digits):
\* is_correct is true exactly when the first 'correct:' marker carries true in
\* any letter case, and false when it carries false or there is no marker;
\* confusion_level is the integer of the first 'confusion:' marker, or 5
\* when there is none; feedback is the whole reply text, markers included.
C7_FallbackExtraction ==
  \A r \in Reqs :
    Fallback(r) =>
      LET s == ReplyText(r)
          j == Answer(r).json
      IN  /\ j["is_correct"] =
               (\E i \in FirstCorrectMarker(s) : LowerTok(s[FirstNonWs(s, i)]) = "true")
          /\ \A i \in FirstConfusionMarker(s) :
               j["confusion_level"] = NumberAt(s, FirstNonWs(s, i))
          /\ FirstConfusionMarker(s) = {} => j["confusion_level"] = 5
          /\ j["feedback"] = s
          /\ DOMAIN j = {"success", "is_correct", "confusion_level", "feedback"}

\* The spec's example "correct: true\nconfusion: 7\n..." in upper-case spelling.
C7_Witness ==
  \E r \in Reqs :
    /\ Fallback(r)
    /\ ReplyText(r) = <<"CORRECT:", "True", "\n", "confusion:", " ", "7">>
    /\ Answer(r).json["is_correct"] = TRUE
    /\ Answer(r).json["confusion_level"] = 7
    /\ Answer(r).json["feedback"] = ReplyText(r)

---------------------------------------------------------------------------
(* Claims about processLearningResponse.                                    *)

\* The request passed validation: its one chat completion call is made.
Prompted(r) == ep[r] = "process" /\ calls[r] # <<>>
PromptOf(r) == calls[r][1].input.system
StartsWith(s, t) == Len(t) <= Len(s) /\ SubSeq(s, 1, Len(t)) = t
Contains(s, t) == \E i \in 1..Len(s) : StartsWith(SubSeq(s, i, Len(s)), t)
KnownTypes == {"hint", "clarification", "encouragement"}

\* C3: whatever the response_type, the final-step addendum is in the system
\* prompt, and is_final_step of the response is true, exactly when
\* current_step >= total_steps.
C3_FinalStepExactlyWhenReached ==
  \A r \in Reqs :
    Prompted(r) =>
      LET reached == body[r]["current_step"] >= body[r]["total_steps"]
      IN  /\ Contains(PromptOf(r), FinalStepAddendum) <=> reached
          /\ Succeeded(r, "process") => (Answer(r).json["is_final_step"] <=> reached)

C3_Witness ==
  \E r \in Reqs :
    /\ Succeeded(r, "process")
    /\ Has(body[r], "response_type") /\ body[r]["response_type"] = "clarification"
    /\ body[r]["current_step"] = body[r]["total_steps"]
    /\ Contains(PromptOf(r), FinalStepAddendum)
    /\ Answer(r).json["is_final_step"] = TRUE

\* C4 as stated: a response_type that is none of hint, clarification,
\* encouragement, the absent response_type included, selects the default
\* template.
C4_AbsentSelectsDefault ==
  \A r \in Reqs :
    Prompted(r) =>
      ((~Has(body[r], "response_type") \/ body[r]["response_type"] \notin KnownTypes)
         => StartsWith(PromptOf(r), DefaultTemplate(body[r])))

\* C4 amended: a response_type that is present and is none of hint,
\* clarification, encouragement selects the default template; an absent
\* response_type selects the hint template; every request that passes
\* validation reaches the provider call, so template selection raises nothing.
C4_UnknownSelectsDefaultAbsentHint ==
  \A r \in Reqs :
    /\ Prompted(r) =>
         /\ (Has(body[r], "response_type") /\ body[r]["response_type"] \notin KnownTypes)
              => StartsWith(PromptOf(r), DefaultTemplate(body[r]))
         /\ ~Has(body[r], "response_type") => StartsWith(PromptOf(r), HintTemplate(body[r]))
    /\ (ep[r] = "process" /\ ~Falsy(body[r], "message") /\ ~Falsy(body[r], "subject"))
         => Prompted(r)

C4_Witness ==
  \E r \in Reqs :
    /\ Succeeded(r, "process")
    /\ Has(body[r], "response_type") /\ body[r]["response_type"] = "quiz"
    /\ StartsWith(PromptOf(r), DefaultTemplate(body[r]))
    /\ ~StartsWith(PromptOf(r), HintTemplate(body[r]))

\* What a turn adds to the context.
TurnText(h) ==
  <<"\n\nStudent: ">> \o h.sent["message"] \o <<"\n\nTutor: ">>
    \o (IF h.reply.kind = "null" THEN <<"null">> ELSE h.reply.text)
StrictPrefix(s, t) == Len(s) < Len(t) /\ SubSeq(t, 1, Len(s)) = s

\* C10: in a conversation whose every turn sends the context the turn before
\* returned, the returned context is the sent context followed by
\* "\n\nStudent: <message>\n\nTutor: <responseText>", the sent context is a
\* strict prefix of it, and what every earlier turn returned is a prefix of it:
\* the earlier messages and replies stay, unchanged and in order.
C10_ContextOnlyGrows ==
  \A k \in 1..Len(hist) :
    LET h == hist[k]
    IN  /\ h.returned = Interp(h.sent, "context") \o TurnText(h)
        /\ Has(h.sent, "context") => StrictPrefix(h.sent["context"], h.returned)
        /\ k > 1 => /\ Has(h.sent, "context")
                    /\ h.sent["context"] = hist[k - 1].returned
        /\ \A j \in 1..(k - 1) :
             /\ StrictPrefix(hist[j].returned, h.returned)
             /\ SubSeq(h.returned, Len(hist[j].returned) - Len(TurnText(hist[j])) + 1,
                       Len(hist[j].returned)) = TurnText(hist[j])

C10_Witness ==
  /\ Len(hist) >= 3
  /\ hist[1].sent["message"] # hist[2].sent["message"]
  /\ hist[1].reply.kind = "content" /\ hist[2].reply.kind = "content"
  /\ hist[1].reply.text # hist[2].reply.text
  /\ Len(hist[3].returned) = Len(Interp(hist[1].sent, "context")) + 12

---------------------------------------------------------------------------
(* Claims about the image controller.                                       *)

\* C8: in every success response of analyzeImage, on the numbered-line path
\* and on the non-blank-line path, learning_steps has at most 5 entries, and
\* none when should_enter_tutorial_mode is false.
C8_AtMostFiveSteps ==
  \A r \in Reqs :
    Succeeded(r, "image") =>
      /\ Len(Answer(r).json["learning_steps"]) <= 5
      /\ ~Answer(r).json["should_enter_tutorial_mode"]
           => Answer(r).json["learning_steps"] = <<>>

\* The requests that were answered with the URL of a file they stored.
Stored(r) ==
  /\ ep[r] \in {"upload", "image"}
  /\ pc[r] = "done"
  /\ Answer(r).status = 200
UrlOf(r) ==
  IF ep[r] = "upload" THEN Answer(r).json["image_url"] ELSE Answer(r).json["audio_url"]

\* C9: two different requests that stored a file have different paths, and
\* the file at a returned image_url or audio_url is the one its own request
\* stored.
C9_StoredPathsDiffer ==
  \A r \in Reqs :
    Stored(r) =>
      /\ \A q \in Reqs \ {r} : Stored(q) => UrlOf(q) # UrlOf(r)
      /\ UrlOf(r) \in DOMAIN files
      /\ files[UrlOf(r)].by = r

\* The provider calls of a request, by what is called.
VisionCall == <<"chat", "gpt-4-vision-preview">>
StepsCall == <<"chat", "gpt-4">>
SpeechCall == <<"audio", "tts-1">>
CallsMade(r) == [k \in 1..Len(calls[r]) |-> <<calls[r][k].api, calls[r][k].model>>]
Made(r, c) == \E k \in 1..Len(calls[r]) : CallsMade(r)[k] = c
IsPrefix(s, t) == Len(s) <= Len(t) /\ SubSeq(t, 1, Len(s)) = s

\* The vision call returned an analysis; the step-generation call returned
\* steps that could be read.
VisionSucceeded(r) ==
  /\ calls[r][1].out = "returned"
  /\ Has(loc[r], "response")
  /\ loc[r].response.kind \in {"content", "null"}
StepsSucceeded(r) ==
  /\ Len(calls[r]) >= 2
  /\ calls[r][2].out = "returned"
  /\ Has(loc[r], "stepsResponse")
  /\ loc[r].stepsResponse.kind = "content"
AnalysisOf(r) ==
  IF loc[r].response.kind = "null" THEN JsNull ELSE loc[r].response.text
TutorialDetected(r) == ShouldEnterTutorialMode(AnalysisOf(r))
EarlierCallsSucceeded(r) ==
  VisionSucceeded(r) /\ (TutorialDetected(r) => StepsSucceeded(r))

\* C11: in analyzeImage, for every request with an image_url, the provider
\* calls are made in the order vision analysis, step generation, speech
\* synthesis, each only after the one before it has returned; the
\* step-generation call is made exactly when tutorial mode is detected on the
\* analysis text of the vision call; the speech-synthesis call is made exactly
\* in the requests whose earlier calls succeeded, with or without tutorial
\* mode; and a success response is there only with the three (or two) calls
\* returned and the audio file written.
C11_CallsInOrder ==
  \A r \in Reqs :
    (ep[r] = "image" /\ ~Falsy(body[r], "image_url")) =>
      /\ Len(calls[r]) >= 1
      /\ \/ IsPrefix(CallsMade(r), <<VisionCall, StepsCall, SpeechCall>>)
         \/ CallsMade(r) = <<VisionCall, SpeechCall>>
      /\ \A k \in 1..(Len(calls[r]) - 1) : calls[r][k].out = "returned"
      /\ calls[r][Len(calls[r])].out = "pending" <=> pc[r] # "done"
      /\ VisionSucceeded(r) => (Made(r, StepsCall) <=> TutorialDetected(r))
      /\ Made(r, StepsCall) => VisionSucceeded(r) /\ Contains(calls[r][2].input, AnalysisOf(r))
      /\ Made(r, SpeechCall) <=> EarlierCallsSucceeded(r)
      /\ Made(r, SpeechCall) => calls[r][Len(calls[r])].input = AnalysisOf(r)
      /\ Succeeded(r, "image") =>
           /\ Made(r, SpeechCall)
           /\ \A k \in 1..Len(calls[r]) : calls[r][k].out = "returned"
           /\ Answer(r).json["audio_url"] \in DOMAIN files
           /\ Answer(r).json["should_enter_tutorial_mode"] = TutorialDetected(r)
           /\ Len(resp[r]) = 1

\* Tutorial mode was detected on an analysis in capitals: three calls, each
\* returned, the file written and the success sent.
C11_Witness ==
  \E r \in Reqs :
    /\ Succeeded(r, "image")
    /\ CallsMade(r) = <<VisionCall, StepsCall, SpeechCall>>
    /\ AnalysisOf(r) = <<"a", "Math Problem">>
    /\ Answer(r).json["audio_url"] \in DOMAIN files

\* No tutorial mode: the speech call follows the vision call directly.
C11_WitnessNoTutorial ==
  \E r \in Reqs :
    /\ Succeeded(r, "image")
    /\ CallsMade(r) = <<VisionCall, SpeechCall>>
    /\ ~TutorialDetected(r)

---------------------------------------------------------------------------
(* Claims about validation and failure, for the three handlers.             *)

Arrived(r) == ep[r] # "none"
Required(e) ==
  CASE e = "analyze" -> {"studentResponse", "context"}
    [] e = "process" -> {"message", "subject"}
    [] e = "image" -> {"image_url"}
    [] OTHER -> {}
LacksRequired(r) == \E k \in Required(ep[r]) : ~Has(body[r], k)
WroteFile(r) == \E path \in DOMAIN files : files[path].by = r

\* C1: a request to analyzeStudentResponse, processLearningResponse or
\* analyzeImage that lacks a required field gets one response, with status 400
\* and success false; no provider call is made and no file is written for it.
C1_MissingFieldIs400 ==
  \A r \in Reqs :
    (Arrived(r) /\ LacksRequired(r)) =>
      /\ pc[r] = "done"
      /\ Len(resp[r]) = 1
      /\ resp[r][1].status = 400
      /\ resp[r][1].json["success"] = FALSE
      /\ calls[r] = <<>>
      /\ ~WroteFile(r)

C1_Witness ==
  \E r \in Reqs :
    /\ ep[r] = "image"
    /\ ~Has(body[r], "image_url")
    /\ resp[r] = <<Resp400("Image URL is required")>>
    /\ calls[r] = <<>>

\* The reply the handler could not read: no first choice; for
\* analyzeStudentResponse also arguments that are no JSON, or neither
\* function_call nor content; for the steps of analyzeImage also no content.
Unreadable(reply, e, key) ==
  \/ reply.kind = "nochoices"
  \/ e = "analyze" /\ reply.kind = "fcall" /\ ~reply.args.wf
  \/ e = "analyze" /\ reply.kind = "null"
  \/ e = "image" /\ key = "stepsResponse" /\ reply.kind = "null"
Threw(r) == \E k \in 1..Len(calls[r]) : calls[r][k].out = "threw"
Unparsed(r) ==
  \E key \in {"response", "stepsResponse"} :
    Has(loc[r], key) /\ Unreadable(loc[r][key], ep[r], key)
WriteFailed(r) == Has(loc[r], "caught") /\ loc[r].caught = "write"

\* C2: when a provider call throws, a reply cannot be read, or the audio file
\* cannot be written, the request ends with exactly one response: status 500,
\* success false, a message, and the text of the error; the call that failed
\* is the last call of the request, no call is made twice, and no response of
\* the request is a success.
C2_FailureIsOne500 ==
  \A r \in Reqs :
    (Threw(r) \/ Unparsed(r) \/ WriteFailed(r)) =>
      /\ pc[r] = "done"
      /\ Len(resp[r]) = 1
      /\ resp[r][1].status = 500
      /\ resp[r][1].json["success"] = FALSE
      /\ resp[r][1].json["message"] # ""
      /\ Has(resp[r][1].json, "error")
      /\ resp[r][1].json["error"] # ""
      /\ Threw(r) => resp[r][1].json["error"] = calls[r][Len(calls[r])].err
      /\ Unparsed(r) => resp[r][1].json["error"] \in {TypeErrorText, SyntaxErrorText}
      /\ WriteFailed(r) => resp[r][1].json["error"] \in DiskErrors
      /\ \A k \in 1..(Len(calls[r]) - 1) : calls[r][k].out = "returned"
      /\ \A j, k \in 1..Len(calls[r]) :
           j # k => <<calls[r][j].api, calls[r][j].model>> # <<calls[r][k].api, calls[r][k].model>>
      /\ ~WroteFile(r)

\* The step-generation call of analyzeImage throws after the vision call returned.
C2_Witness ==
  \E r \in Reqs :
    /\ ep[r] = "image"
    /\ Len(calls[r]) = 2
    /\ calls[r][1].out = "returned"
    /\ calls[r][2].out = "threw"
    /\ resp[r] = <<Resp500("Error analyzing image", calls[r][2].err)>>

====
